---- MODULE Spec2Model ----
(***************************************************************************)
(* Model of git_log2csv.py (gitjson): the command-line scan of __main__,   *)
(* check_flags, the commit-parsing loop of git_log with its tabular        *)
(* output, and git_shortlog.                                               *)
(*                                                                         *)
(* A Python string is a sequence of one-character strings; a list of       *)
(* strings is a sequence of such sequences.  The cursor i is 0-based as in *)
(* the code, so the code's lines[i] is Line(lines, i) == lines[i + 1].     *)
(*                                                                         *)
(* git_log needs Python 3 (subprocess.getoutput, pandas.json_normalize).   *)
(* Under Python 3 subprocess.check_output returns bytes, and line 86 of    *)
(* git_shortlog splits them by a str, which raises TypeError; under        *)
(* Python 2 the output is text.  RunShortlog has both outcomes.            *)
(***************************************************************************)
EXTENDS Integers, Sequences, FiniteSets, TLC

VARIABLES pc, argv, command, json_flags, summary_flag, email_flag,
          stdout, stderr, exitCode, exc, gitRuns, history,
          lines, i, cur, commits, csv, author_entries

vars == <<pc, argv, command, json_flags, summary_flag, email_flag,
          stdout, stderr, exitCode, exc, gitRuns, history,
          lines, i, cur, commits, csv, author_entries>>

(***************************************************************************)
(* Bounds of the model.                                                    *)
(***************************************************************************)
MaxArgs == 2          \* command-line arguments after the program name
MaxCommits == 2       \* record blocks in the text handed to the parser
MaxShortLines == 2    \* lines of shortlog output

(***************************************************************************)
(* Characters and Python string primitives.                                *)
(***************************************************************************)
TAB == "\t"
NL == "\n"
Digits == {"0", "1", "2", "3", "4", "5", "6", "7", "8", "9"}
Whitespace == {" ", TAB, NL}

DigitVal(c) ==
    CASE c = "0" -> 0 [] c = "1" -> 1 [] c = "2" -> 2 [] c = "3" -> 3
      [] c = "4" -> 4 [] c = "5" -> 5 [] c = "6" -> 6 [] c = "7" -> 7
      [] c = "8" -> 8 [] c = "9" -> 9

\* str.startswith(prefix)
StartsWith(s, p) == Len(s) >= Len(p) /\ SubSeq(s, 1, Len(p)) = p

\* c in s, for a one-character c
In(c, s) == \E k \in 1..Len(s) : s[k] = c

\* s[n:]
From(s, n) == SubSeq(s, n + 1, Len(s))

\* s[:-1]
DropLast(s) == SubSeq(s, 1, Len(s) - 1)

\* The positions of sep in s, in increasing order
SeparatorsAt(s, sep) ==
    SelectSeq([k \in 1..Len(s) |-> k], LAMBDA k : s[k] = sep)

\* str.split(sep) for a one-character separator: the text between
\* consecutive separators, so always at least one field
Split(s, sep) ==
    LET at == SeparatorsAt(s, sep)
    IN  [m \in 1..(Len(at) + 1) |->
            SubSeq(s,
                   (IF m = 1 THEN 0 ELSE at[m - 1]) + 1,
                   (IF m > Len(at) THEN Len(s) + 1 ELSE at[m]) - 1)]

RECURSIVE Join(_, _)
\* sep.join(parts)
Join(parts, sep) ==
    IF parts = <<>> THEN <<>>
    ELSE IF Len(parts) = 1 THEN parts[1]
    ELSE parts[1] \o <<sep>> \o Join(Tail(parts), sep)

RECURSIVE LStrip(_)
LStrip(s) == IF s # <<>> /\ Head(s) \in Whitespace THEN LStrip(Tail(s)) ELSE s

RECURSIVE RStrip(_)
RStrip(s) ==
    IF s # <<>> /\ s[Len(s)] \in Whitespace THEN RStrip(DropLast(s)) ELSE s

\* str.strip(): whitespace (blanks and tabs alike) removed at both ends
Strip(s) == RStrip(LStrip(s))

\* Does int(s) succeed?  Surrounding whitespace and one sign are accepted.
IsIntLiteral(s) ==
    LET t == Strip(s)
        u == IF t # <<>> /\ t[1] \in {"+", "-"} THEN Tail(t) ELSE t
    IN  u # <<>> /\ \A k \in 1..Len(u) : u[k] \in Digits

RECURSIVE DigitsValue(_)
DigitsValue(u) ==
    IF u = <<>> THEN 0 ELSE 10 * DigitsValue(DropLast(u)) + DigitVal(u[Len(u)])

\* int(s), defined where IsIntLiteral(s)
IntOf(s) ==
    LET t == Strip(s)
    IN  IF t[1] = "-" THEN 0 - DigitsValue(Tail(t))
        ELSE IF t[1] = "+" THEN DigitsValue(Tail(t))
        ELSE DigitsValue(t)

\* Exit status seen by the parent process for sys.exit(n): n modulo 2^8
ExitStatus(n) == n % 256

(***************************************************************************)
(* Command lines.  argv[1] is the program name (sys.argv[0]).              *)
(***************************************************************************)
PROG == <<"g">>
HELP == <<"-", "-", "h", "e", "l", "p">>
LOG == <<"l", "o", "g">>
SHORTLOG == <<"s", "h", "o", "r", "t", "l", "o", "g">>
JSON_PREFIX == <<"-", "-", "j", "s", "o", "n", "=">>
ALLOWED_FLAGS == <<"a", "e", "h", "d", "s", "f", "p", "t">>

\* Filter strings tried after --json=
FilterChoices ==
    { <<"a", "s">>, <<"s", "a">>, <<"a", "a", "s">>,
      <<"h", "a", "d", "s", "f">>, <<"e", "p", "t">>,
      <<"x">>, <<"x", "y", "a">> }

\* Arguments a command line is drawn from
ArgChoices ==
    { HELP, LOG, SHORTLOG, <<"s", "h", "o", "w">>, <<"k", "=", "v">>,
      <<"-", "s">>, <<"-", "s", "e">>, <<"-", "-", "s", "e">>, <<"-">> }
    \cup { JSON_PREFIX \o f : f \in FilterChoices }

SeqsUpTo(S, n) == UNION { [1..m -> S] : m \in 0..n }

CommandLines == { <<PROG>> \o a : a \in SeqsUpTo(ArgChoices, MaxArgs) }

(***************************************************************************)
(* The text git prints for                                                 *)
(*   log --pretty=tformat:<MARKER>%n%h%n%aN%n%aE%n%at%n%ai%n%p%n%t%n%s     *)
(*       --date=local --numstat                                            *)
(* A history is a sequence of block kinds; block k carries header values   *)
(* that name k, so that records cannot be confused.  Besides the shapes    *)
(* the template produces there are damaged ones.                           *)
(***************************************************************************)
START_OF_COMMIT == <<"@", "@", "@", "@", "@", "@", "@", "@", "@", "@">>
BLANK == <<>>

DigitChar(k) ==
    CASE k = 1 -> "1" [] k = 2 -> "2" [] k = 3 -> "3" [] k = 4 -> "4"
      [] OTHER -> "9"

\* The 8 lines %h %aN %aE %at %ai %p %t %s of commit k.  %at is all digits;
\* %p is empty for a root commit (odd k) and two hashes for a merge.
HeaderLines(k) ==
    << <<"c", DigitChar(k)>>,
       <<"N", DigitChar(k)>>,
       <<"E", DigitChar(k)>>,
       <<"1", "7", DigitChar(k)>>,
       <<"2", "0", "-", DigitChar(k)>>,
       IF k % 2 = 1 THEN <<>> ELSE <<"p", " ", "q">>,
       <<"T", DigitChar(k)>>,
       <<"S", DigitChar(k)>> >>

NumstatText(k) == <<"3", TAB, "1", TAB, "f", DigitChar(k)>>
NumstatBinary(k) == <<"-", TAB, "-", TAB, "b", DigitChar(k)>>
NumstatShort == <<"3", TAB, "1">>
Junk == <<"x">>

TemplateKinds == {"none", "blank", "one", "two"}
DamagedKinds == {"garbage", "short", "noblank", "trunc3", "trunc7", "eof"}
BlockKinds == TemplateKinds \cup DamagedKinds

\* The numstat lines of block k, as git would list them
NumstatLines(kind, k) ==
    CASE kind = "one" -> <<NumstatText(k)>>
      [] kind = "two" -> <<NumstatText(k), NumstatBinary(k)>>
      [] kind = "noblank" -> <<NumstatText(k), NumstatBinary(k)>>
      [] kind = "garbage" -> <<NumstatText(k), Junk, NumstatBinary(k)>>
      [] kind = "short" -> <<NumstatShort>>
      [] OTHER -> <<>>

BlockLines(kind, k) ==
    CASE kind = "eof" -> <<BLANK>>
      [] kind = "trunc3" -> <<START_OF_COMMIT>> \o SubSeq(HeaderLines(k), 1, 3)
      [] kind = "trunc7" -> <<START_OF_COMMIT>> \o SubSeq(HeaderLines(k), 1, 7)
      [] kind = "none" -> <<START_OF_COMMIT>> \o HeaderLines(k)
      [] kind = "noblank" ->
            <<START_OF_COMMIT>> \o HeaderLines(k) \o NumstatLines(kind, k)
      [] OTHER ->
            <<START_OF_COMMIT>> \o HeaderLines(k) \o <<BLANK>>
                \o NumstatLines(kind, k)

RECURSIVE RenderFrom(_, _)
RenderFrom(h, k) ==
    IF k > Len(h) THEN <<>> ELSE BlockLines(h[k], k) \o RenderFrom(h, k + 1)

\* What the command writes: every line followed by a newline
RawText(h) ==
    LET ls == RenderFrom(h, 1)
    IN  IF ls = <<>> THEN <<>> ELSE Join(ls, NL) \o <<NL>>

\* subprocess.getoutput: the text with one trailing newline removed
GetOutput(text) ==
    IF text # <<>> /\ text[Len(text)] = NL THEN DropLast(text) ELSE text

Histories == SeqsUpTo(BlockKinds, MaxCommits)

WellFormed(h) == \A k \in 1..Len(h) : h[k] \in TemplateKinds

(***************************************************************************)
(* Helpers of the script.                                                  *)
(***************************************************************************)
\* remove_elements: drop every element that starts with one of the removals
remove_elements(string_list, removals) ==
    SelectSeq(string_list,
              LAMBDA el : ~ \E r \in 1..Len(removals) : StartsWith(el, removals[r]))

RECURSIVE has_flag(_, _)
\* has_flag: "true", "false", or "raise" (IndexError on arg[0] or arg[1])
has_flag(all_args, flag_to_check) ==
    IF all_args = <<>> THEN "false"
    ELSE LET arg == Head(all_args)
         IN  IF arg = <<>> THEN "raise"
             ELSE IF arg[1] = "-"
                  THEN IF Len(arg) < 2 THEN "raise"
                       ELSE IF arg[2] # "-" /\ In(flag_to_check, arg) THEN "true"
                       ELSE has_flag(Tail(all_args), flag_to_check)
                  ELSE has_flag(Tail(all_args), flag_to_check)

\* check_flags: the diagnostics written, one per offending character, in order
check_flags_errors(incoming_flags, allowed_flags) ==
    LET bad == SelectSeq(incoming_flags, LAMBDA c : ~ In(c, allowed_flags))
    IN  [k \in 1..Len(bad) |-> [msg |-> "Unrecognized flag", ch |-> <<bad[k]>>]]

\* Variant: has_error follows the last character only
check_flags_exits_LastOnly(incoming_flags, allowed_flags) ==
    /\ incoming_flags # <<>>
    /\ ~ In(incoming_flags[Len(incoming_flags)], allowed_flags)

\* check_flags: does it call sys.exit(-2)?
check_flags_exits(incoming_flags, allowed_flags) ==
    check_flags_errors(incoming_flags, allowed_flags) # <<>>

RECURSIVE CommandScan(_)
\* __main__: the first argument without a leading dash and without '='
CommandScan(rest) ==
    IF rest = <<>> THEN [found |-> FALSE, arg |-> <<>>]
    ELSE IF ~ StartsWith(Head(rest), <<"-">>) /\ ~ In("=", Head(rest))
         THEN [found |-> TRUE, arg |-> Head(rest)]
         ELSE CommandScan(Tail(rest))

RECURSIVE JsonFlagsOf(_, _)
\* __main__: the text after --json= of the last such argument, '' if none
JsonFlagsOf(rest, acc) ==
    IF rest = <<>> THEN acc
    ELSE IF StartsWith(Head(rest), JSON_PREFIX)
         THEN JsonFlagsOf(Tail(rest), From(Head(rest), 7))
         ELSE JsonFlagsOf(Tail(rest), acc)

(***************************************************************************)
(* State.                                                                  *)
(***************************************************************************)
NoCur == [sha |-> <<>>, name |-> <<>>, email |-> <<>>, date |-> <<>>,
          date_iso |-> <<>>, parents |-> <<>>, tree |-> <<>>,
          subject |-> <<>>, files |-> <<>>]

NoFile == [written |-> FALSE, rows |-> <<>>]

Init ==
    /\ pc = "main"
    /\ argv \in CommandLines
    /\ command = <<>>
    /\ json_flags = <<>>
    /\ summary_flag = FALSE
    /\ email_flag = FALSE
    /\ stdout = <<>>
    /\ stderr = <<>>
    /\ exitCode = 0
    /\ exc = "none"
    /\ gitRuns = 0
    /\ history = <<>>
    /\ lines = <<>>
    /\ i = 0
    /\ cur = NoCur
    /\ commits = <<>>
    /\ csv = NoFile
    /\ author_entries = <<>>

\* The process ends with this status; e names the uncaught exception, if any
Terminate(status, e) ==
    /\ pc' = "exit"
    /\ exitCode' = status
    /\ exc' = e

\* An uncaught exception: traceback on stderr, exit status 1
Raise(e) ==
    /\ Terminate(1, e)
    /\ stderr' = Append(stderr, [msg |-> "Traceback", ch |-> <<>>])

(***************************************************************************)
(* __main__: scan the command line and call git_log or git_shortlog.       *)
(***************************************************************************)
Main ==
    /\ pc = "main"
    /\ UNCHANGED <<summary_flag, email_flag, gitRuns, history, lines, i, cur,
                   commits, csv, author_entries>>
    /\ IF Len(argv) > 1 /\ argv[2] = HELP
       THEN /\ stdout' = Append(stdout, "USAGE")
            /\ Terminate(0, "none")
            /\ UNCHANGED <<argv, command, json_flags, stderr>>
       ELSE LET scan == CommandScan(Tail(argv))
            IN  IF scan.found /\ scan.arg # LOG /\ scan.arg # SHORTLOG
                THEN /\ stderr' = Append(stderr,
                            [msg |-> "Only log and shortlog are supported",
                             ch |-> <<>>])
                     /\ Terminate(ExitStatus(-1), "none")
                     /\ UNCHANGED <<argv, command, json_flags, stdout>>
                ELSE LET cmd == IF scan.found THEN scan.arg ELSE LOG
                         flags == JsonFlagsOf(Tail(argv), <<>>)
                         args == remove_elements(argv, <<JSON_PREFIX>>)
                     IN  /\ command' = cmd
                         /\ json_flags' = flags
                         /\ UNCHANGED stdout
                         /\ IF cmd = <<>>
                            THEN /\ stderr' = Append(stderr,
                                        [msg |-> "Git command must be specified",
                                         ch |-> <<>>])
                                 /\ Terminate(ExitStatus(-2), "none")
                                 /\ UNCHANGED argv
                            ELSE /\ argv' = Tail(args)
                                 /\ pc' = IF cmd = LOG THEN "git_log"
                                          ELSE "git_shortlog"
                                 /\ UNCHANGED <<stderr, exitCode, exc>>

(***************************************************************************)
(* git_log.                                                                *)
(***************************************************************************)
\* The code's lines[k], k counted from 0
Line(ls, k) == ls[k + 1]

\* Line 118: check_flags before anything else.  The arguments are dropped
\* here: lines 122-130 rebuild them, but nothing reads the result, the
\* command of line 136 being a literal.
CheckFlags ==
    /\ pc = "git_log"
    /\ stderr' = stderr \o check_flags_errors(json_flags, ALLOWED_FLAGS)
    /\ IF check_flags_exits(json_flags, ALLOWED_FLAGS)
       THEN Terminate(ExitStatus(-2), "none")
       ELSE pc' = "run_log" /\ UNCHANGED <<exitCode, exc>>
    /\ argv' = <<>>
    /\ UNCHANGED <<command, json_flags, summary_flag, email_flag, stdout,
                   gitRuns, history, lines, i, cur, commits, csv,
                   author_entries>>

\* Lines 132-144: the log command runs and its text is split into lines
RunGitLog ==
    /\ pc = "run_log"
    /\ \E h \in Histories :
          /\ history' = h
          /\ lines' = Split(GetOutput(RawText(h)), NL)
    /\ gitRuns' = gitRuns + 1
    /\ commits' = <<>>
    /\ i' = 0
    /\ pc' = "outer"
    /\ UNCHANGED <<argv, command, json_flags, summary_flag, email_flag, stdout,
                   stderr, exitCode, exc, cur, csv, author_entries>>

\* Lines 152-159: the eight header lines found at cursor k
ReadHeader(ls, k) ==
    [sha |-> Line(ls, k),
     name |-> Line(ls, k + 1),
     email |-> Line(ls, k + 2),
     date |-> Line(ls, k + 3),
     date_iso |-> Line(ls, k + 4),
     parents |-> Split(Line(ls, k + 5), " "),
     tree |-> Line(ls, k + 6),
     subject |-> Line(ls, k + 7),
     files |-> <<>>]

\* Line 160: the cursor after the header lines read at k
AfterHeader(k) == k + 8

\* Line 165: is a numstat block taken to follow at cursor k?
NumstatFollows(ls, k) == Line(ls, k) # START_OF_COMMIT

\* Lines 152-159: is one of lines[k] .. lines[k+7] past the end?
HeaderMissing(ls, k) == k + 7 >= Len(ls)

\* Variant: a block cut short is taken for the end of the log
TruncatedHeader_EndsLog ==
    /\ pc' = "csv"
    /\ UNCHANGED <<i, cur, stderr, exitCode, exc>>

\* Lines 150-159 on a block cut short: the marker is skipped and the read of
\* the first missing line raises IndexError, which nothing catches
TruncatedHeader ==
    /\ i' = i + 1
    /\ Raise("IndexError")
    /\ UNCHANGED cur

\* Lines 145-167: one pass of the outer loop up to the numstat loop
Outer ==
    /\ pc = "outer"
    /\ UNCHANGED <<argv, command, json_flags, summary_flag, email_flag, stdout,
                   gitRuns, history, lines, commits, csv, author_entries>>
    /\ IF i >= Len(lines) \/ Line(lines, i) = <<>>
       THEN \* loop condition false, or "End of log" break
            /\ pc' = "csv"
            /\ UNCHANGED <<i, cur, stderr, exitCode, exc>>
       ELSE IF HeaderMissing(lines, i + 1)
       THEN TruncatedHeader
       ELSE LET j == AfterHeader(i + 1)
            IN  /\ cur' = ReadHeader(lines, i + 1)
                /\ IF j >= Len(lines)
                   THEN \* lines[i] at line 165 is past the end
                        /\ i' = j
                        /\ Raise("IndexError")
                   ELSE /\ UNCHANGED <<stderr, exitCode, exc>>
                        /\ IF NumstatFollows(lines, j)
                           THEN i' = j + 1 /\ pc' = "inner"
                           ELSE i' = j /\ pc' = "emit"

\* Variant: only a leading digit is recognised
IsNumstatLine_DigitOnly(l) == l # <<>> /\ l[1] \in Digits

\* Lines 169-170: the numstat loop's test on a line
IsNumstatLine(l) == l # <<>> /\ (l[1] \in Digits \/ l[1] = "-")

\* Line 172: the entry made of a numstat line's fields (at least 3)
FileEntry(fields) == [ins |-> fields[1], del |-> fields[2], path |-> fields[3]]

\* Variant: the cursor is not advanced
AfterNumstat_Stuck(k) == k

\* Line 173: the cursor after a numstat line at k
AfterNumstat(k) == k + 1

\* Lines 169-173: one pass of the numstat loop, or its end
Inner ==
    /\ pc = "inner"
    /\ UNCHANGED <<argv, command, json_flags, summary_flag, email_flag, stdout,
                   gitRuns, history, lines, commits, csv, author_entries>>
    /\ IF i < Len(lines) /\ IsNumstatLine(Line(lines, i))
       THEN LET fields == Split(Line(lines, i), TAB)
            IN  IF Len(fields) < 3
                THEN /\ Raise("IndexError")
                     /\ UNCHANGED <<i, cur>>
                ELSE /\ cur' = [cur EXCEPT !.files = Append(@, FileEntry(fields))]
                     /\ i' = AfterNumstat(i)
                     /\ UNCHANGED <<pc, stderr, exitCode, exc>>
       ELSE /\ pc' = "emit"
            /\ UNCHANGED <<i, cur, stderr, exitCode, exc>>

\* Lines 176-192: does the filter keep the field with this code?
Included(flags, code) == flags = <<>> \/ In(code, flags)

\* Variant: the code d keeps date alone
Commit_DateOnly(flags, c) ==
    LET keys ==
            (IF Included(flags, "h") THEN {"sha"} ELSE {})
            \cup (IF Included(flags, "a") THEN {"name"} ELSE {})
            \cup (IF Included(flags, "e") THEN {"email"} ELSE {})
            \cup (IF Included(flags, "d") THEN {"date"} ELSE {})
            \cup (IF Included(flags, "s") THEN {"subject"} ELSE {})
            \cup (IF Included(flags, "f") THEN {"files"} ELSE {})
            \cup (IF Included(flags, "p") THEN {"parents"} ELSE {})
            \cup (IF Included(flags, "t") THEN {"tree"} ELSE {})
    IN  [k \in keys |-> c[k]]

\* Lines 175-192: the record emitted for the parsed fields c
Commit(flags, c) ==
    LET keys ==
            (IF Included(flags, "h") THEN {"sha"} ELSE {})
            \cup (IF Included(flags, "a") THEN {"name"} ELSE {})
            \cup (IF Included(flags, "e") THEN {"email"} ELSE {})
            \cup (IF Included(flags, "d") THEN {"date", "date_iso"} ELSE {})
            \cup (IF Included(flags, "s") THEN {"subject"} ELSE {})
            \cup (IF Included(flags, "f") THEN {"files"} ELSE {})
            \cup (IF Included(flags, "p") THEN {"parents"} ELSE {})
            \cup (IF Included(flags, "t") THEN {"tree"} ELSE {})
    IN  [k \in keys |-> c[k]]

\* Lines 175-194: build the record and append it
Emit ==
    /\ pc = "emit"
    /\ commits' = Append(commits, Commit(json_flags, cur))
    /\ cur' = NoCur
    /\ pc' = "outer"
    /\ UNCHANGED <<argv, command, json_flags, summary_flag, email_flag, stdout,
                   stderr, exitCode, exc, gitRuns, history, lines, i, csv,
                   author_entries>>

CsvKeys == {"files", "name", "date_iso", "subject", "sha"}

\* json_normalize raises KeyError when a record lacks the record path or a
\* meta field
NormalizeRaises(cs) ==
    \E k \in 1..Len(cs) : ~ (CsvKeys \subseteq DOMAIN cs[k])

\* The rows json_normalize makes of one record: one per element of 'files',
\* the meta fields repeated
RowsOf(c) ==
    [k \in 1..Len(c.files) |->
        [ins |-> c.files[k].ins, del |-> c.files[k].del,
         path |-> c.files[k].path, name |-> c.name,
         date_iso |-> c.date_iso, subject |-> c.subject, sha |-> c.sha]]

RECURSIVE json_normalize(_)
\* pd.json_normalize(commits, record_path=['files'], meta=[...]): data rows
json_normalize(cs) ==
    IF cs = <<>> THEN <<>> ELSE RowsOf(Head(cs)) \o json_normalize(Tail(cs))

\* Lines 197-199: flatten and write log.csv; git_log and the script return
WriteCsv ==
    /\ pc = "csv"
    /\ IF NormalizeRaises(commits)
       THEN Raise("KeyError") /\ UNCHANGED csv
       ELSE /\ csv' = [written |-> TRUE, rows |-> json_normalize(commits)]
            /\ Terminate(0, "none")
            /\ UNCHANGED stderr
    /\ UNCHANGED <<argv, command, json_flags, summary_flag, email_flag, stdout,
                   gitRuns, history, lines, i, cur, commits, author_entries>>

(***************************************************************************)
(* git_shortlog.                                                           *)
(***************************************************************************)
\* Lines of shortlog output tried
ShortLineChoices ==
    { <<" ", " ", "5", TAB, "A", " ", "<", "e", ">">>,
      <<"1", "2", TAB, "B">>,
      <<"5", TAB>>,
      <<"A">>,
      <<"3", TAB, "C", " ", "<", "d">>,
      <<"4", TAB, "D", "<", "e", "<", "f", ">">>,
      <<"x", TAB, "A">> }

ShortlogOutputs == SeqsUpTo(ShortLineChoices, MaxShortLines)

RECURSIVE Terminated(_)
\* The text of a command that ends every line with a newline
Terminated(ls) ==
    IF ls = <<>> THEN <<>> ELSE Head(ls) \o <<NL>> \o Terminated(Tail(ls))

\* Lines 81-86: the flags are read off the arguments, the command runs and
\* its text is split into lines
RunShortlog ==
    /\ pc = "git_shortlog"
    /\ UNCHANGED <<command, json_flags, stdout, history, cur, commits, csv,
                   author_entries>>
    /\ LET s == has_flag(argv, "s")
           n == has_flag(argv, "n")
           e == has_flag(argv, "e")
       IN  IF "raise" \in {s, n, e}
           THEN /\ Raise("IndexError")
                /\ UNCHANGED <<argv, summary_flag, email_flag, gitRuns, lines, i>>
           ELSE /\ summary_flag' = (s = "true")
                /\ email_flag' = (e = "true")
                /\ gitRuns' = gitRuns + 1
                /\ argv' = <<>>
                /\ \/ \* text output (Python 2)
                      /\ \E out \in ShortlogOutputs :
                            lines' = Split(Terminated(out), NL)
                      /\ i' = 0
                      /\ pc' = IF s = "true" THEN "sl_loop" ELSE "sl_print"
                      /\ UNCHANGED <<stderr, exitCode, exc>>
                   \/ \* bytes output (Python 3): bytes.split(str)
                      /\ Raise("TypeError")
                      /\ UNCHANGED <<lines, i>>

\* Lines 98-103: the record of an author label when email is requested, as
\* a sequence of zero or one records
EmailEntry(author, count) ==
    LET fields == Split(author, "<")
    IN  IF Len(fields) = 2
        THEN << [name |-> Strip(fields[1]),
                 email |-> DropLast(Strip(fields[2])),
                 count |-> count] >>
        ELSE <<>>

\* Line 92: the line as it is split
StripLine(line) == Strip(line)

\* Lines 92-105: the records one line adds (ValueError aside)
LineEntries(line, email) ==
    LET fields == Split(StripLine(line), TAB)
    IN  IF Len(fields) > 1
        THEN LET count == IntOf(fields[1])
                 author == Join(Tail(fields), " ")
             IN  IF email THEN EmailEntry(author, count)
                 ELSE << [name |-> author, count |-> count] >>
        ELSE <<>>

\* Line 95: int() raises ValueError on this line
CountRaises(line) ==
    LET fields == Split(StripLine(line), TAB)
    IN  Len(fields) > 1 /\ ~ IsIntLiteral(fields[1])

\* Lines 91-105: one pass of the loop over the lines; i is the position of
\* the for loop
ShortlogLine ==
    /\ pc = "sl_loop"
    /\ UNCHANGED <<argv, command, json_flags, summary_flag, email_flag, stdout,
                   gitRuns, history, lines, cur, commits, csv>>
    /\ IF i >= Len(lines)
       THEN /\ pc' = "sl_print"
            /\ UNCHANGED <<i, author_entries, stderr, exitCode, exc>>
       ELSE IF CountRaises(Line(lines, i))
       THEN /\ Raise("ValueError")
            /\ UNCHANGED <<i, author_entries>>
       ELSE /\ author_entries' =
                  author_entries \o LineEntries(Line(lines, i), email_flag)
            /\ i' = i + 1
            /\ UNCHANGED <<pc, stderr, exitCode, exc>>

\* Line 109: print the entries; git_shortlog and the script return
ShortlogPrint ==
    /\ pc = "sl_print"
    /\ stdout' = Append(stdout, "author_entries")
    /\ Terminate(0, "none")
    /\ UNCHANGED <<argv, command, json_flags, summary_flag, email_flag, stderr,
                   gitRuns, history, lines, i, cur, commits, csv,
                   author_entries>>

Next ==
    \/ Main
    \/ CheckFlags
    \/ RunGitLog
    \/ Outer
    \/ Inner
    \/ Emit
    \/ WriteCsv
    \/ RunShortlog
    \/ ShortlogLine
    \/ ShortlogPrint

Spec == Init /\ [][Next]_vars

(***************************************************************************)
(* git_log alone, from the call of the log command on: the state after     *)
(* __main__ and check_flags for a command line whose filter passes.  The   *)
(* interpreter runs the function to its end, so no step is postponed       *)
(* forever.                                                                *)
(***************************************************************************)
LoopInit ==
    /\ pc = "run_log"
    /\ argv = <<>>
    /\ command = LOG
    /\ json_flags \in {f \in FilterChoices \cup {<<>>} :
                          ~ check_flags_exits(f, ALLOWED_FLAGS)}
    /\ summary_flag = FALSE
    /\ email_flag = FALSE
    /\ stdout = <<>>
    /\ stderr = <<>>
    /\ exitCode = 0
    /\ exc = "none"
    /\ gitRuns = 0
    /\ history = <<>>
    /\ lines = <<>>
    /\ i = 0
    /\ cur = NoCur
    /\ commits = <<>>
    /\ csv = NoFile
    /\ author_entries = <<>>

LoopNext == RunGitLog \/ Outer \/ Inner \/ Emit \/ WriteCsv

LoopSpec == LoopInit /\ [][LoopNext]_vars /\ WF_vars(LoopNext)

TypeOK ==
    /\ pc \in {"main", "git_log", "run_log", "outer", "inner", "emit", "csv",
               "git_shortlog", "sl_loop", "sl_print", "exit"}
    /\ exitCode \in 0..255
    /\ i \in Nat

(***************************************************************************)
(* What a history should parse to, written down from the history itself.   *)
(***************************************************************************)
HeaderKeys == {"sha", "name", "email", "date", "date_iso", "parents", "tree",
               "subject"}

ExpectedParents(k) == IF k % 2 = 1 THEN << <<>> >> ELSE << <<"p">>, <<"q">> >>

ExpectedHeader(k) ==
    [sha |-> HeaderLines(k)[1], name |-> HeaderLines(k)[2],
     email |-> HeaderLines(k)[3], date |-> HeaderLines(k)[4],
     date_iso |-> HeaderLines(k)[5], parents |-> ExpectedParents(k),
     tree |-> HeaderLines(k)[7], subject |-> HeaderLines(k)[8]]

\* The entries of the numstat lines that block k holds between its header
\* lines and the next marker
ExpectedFiles(kind, k) ==
    CASE kind = "one" ->
            << [ins |-> <<"3">>, del |-> <<"1">>, path |-> <<"f", DigitChar(k)>>] >>
      [] kind \in {"two", "garbage", "noblank"} ->
            << [ins |-> <<"3">>, del |-> <<"1">>, path |-> <<"f", DigitChar(k)>>],
               [ins |-> <<"-">>, del |-> <<"-">>, path |-> <<"b", DigitChar(k)>>] >>
      [] OTHER -> <<>>

HeaderOfBlock(c, k) ==
    \A f \in (DOMAIN c) \cap HeaderKeys : c[f] = ExpectedHeader(k)[f]

MarkerCount(ls) == Cardinality({k \in 1..Len(ls) : ls[k] = START_OF_COMMIT})

LogRan == command = LOG /\ gitRuns = 1

\* C1: on a stream that follows the template, the loop appends as many
\* records as the stream has marker lines, the k-th with the header fields
\* of the k-th marker block.
C1_EveryMarkerBlockRecovered ==
    (LogRan /\ pc = "exit" /\ WellFormed(history)) =>
        /\ Len(commits) = MarkerCount(lines)
        /\ \A k \in 1..Len(commits) : HeaderOfBlock(commits[k], k)

\* Record k is the record of block k when the blocks before it follow the
\* template
Aligned(h, k) == \A j \in 1..(k - 1) : h[j] \in TemplateKinds

\* C2 as stated, for every record the parser produces: its files are all the
\* numstat lines between its header block and the next marker, none
\* dropped.
C2_FilesAreAllNumstatLines ==
    LogRan =>
        \A k \in 1..Len(commits) :
            (Aligned(history, k) /\ "files" \in DOMAIN commits[k]) =>
                commits[k].files = ExpectedFiles(history[k], k)

\* C2, amended: on a stream that follows the template, the files of every
\* record produced are the numstat lines of its own block, in order, each
\* line's three tab-separated fields verbatim.
C2_FilesAreTheNumstatLines ==
    (LogRan /\ WellFormed(history)) =>
        \A k \in 1..Len(commits) :
            "files" \in DOMAIN commits[k] =>
                commits[k].files = ExpectedFiles(history[k], k)

C2_Witness ==
    /\ pc = "exit"
    /\ WellFormed(history)
    /\ Len(commits) = 2
    /\ "files" \in DOMAIN commits[1]
    /\ Len(commits[1].files) = 2
    /\ Len(commits[2].files) = 1
    /\ commits[1].files[2].ins = <<"-">>

\* C3: a record without numstat lines is parsed into a commit with empty
\* files wherever it sits in the stream, the last position included.
C3_EmptyRecordKept ==
    (LogRan /\ pc = "exit" /\ WellFormed(history)) =>
        \A k \in 1..Len(history) :
            history[k] = "none" =>
                /\ Len(commits) >= k
                /\ "files" \in DOMAIN commits[k] => commits[k].files = <<>>

AllFields == HeaderKeys \cup {"files"}

CodeOf(f) ==
    CASE f = "name" -> "a" [] f = "email" -> "e" [] f = "sha" -> "h"
      [] f \in {"date", "date_iso"} -> "d" [] f = "subject" -> "s"
      [] f = "files" -> "f" [] f = "parents" -> "p" [] f = "tree" -> "t"

CharsOf(str) == {str[k] : k \in 1..Len(str)}

\* C4: the fields of an emitted record depend on the set of characters of
\* the filter alone: all fields for the empty filter, else exactly the
\* fields whose code occurs; the values are those parsed.
C4_FieldsFollowFilterChars ==
    [][pc = "emit" =>
          LET c == commits'[Len(commits')]
              S == CharsOf(json_flags)
          IN  /\ Len(commits') = Len(commits) + 1
              /\ DOMAIN c = {f \in AllFields : S = {} \/ CodeOf(f) \in S}
              /\ \A f \in DOMAIN c : c[f] = cur[f]]_vars

C4_Witness ==
    /\ json_flags = <<"a", "a", "s">>
    /\ Len(commits) = 2
    /\ DOMAIN commits[2] = {"name", "subject"}
    /\ commits[2].name = <<"N", "2">>

BadChars(flags) == CharsOf(flags) \ {"a", "e", "h", "d", "s", "f", "p", "t"}

Unrecognized(c) == [msg |-> "Unrecognized flag", ch |-> <<c>>]

\* C5: with a character outside aehdsfpt in the filter, git_log ends the
\* process with a non-zero status before the log command runs and before
\* any line is parsed, with a diagnostic for each bad character, no record
\* and no output file; otherwise check_flags does not exit.
C5_BadFilterFailsFast ==
    (command = LOG /\ pc \notin {"main", "git_log"}) =>
        IF BadChars(json_flags) # {}
        THEN /\ pc = "exit"
             /\ exitCode # 0
             /\ gitRuns = 0
             /\ lines = <<>>
             /\ commits = <<>>
             /\ ~ csv.written
             /\ \A c \in BadChars(json_flags) :
                    \E m \in 1..Len(stderr) : stderr[m] = Unrecognized(c)
        ELSE /\ pc = "exit" => gitRuns = 1
             /\ \A m \in 1..Len(stderr) : stderr[m].msg # "Unrecognized flag"

C5_Witness ==
    /\ pc = "exit"
    /\ command = LOG
    /\ json_flags = <<"x", "y", "a">>
    /\ stderr = <<Unrecognized("x"), Unrecognized("y")>>
    /\ exitCode = 254

TruncatedLast(h) ==
    /\ h # <<>>
    /\ h[Len(h)] \in {"trunc3", "trunc7"}
    /\ \A k \in 1..(Len(h) - 1) : h[k] \in TemplateKinds

\* C6: when the input ends inside a record (the cursor is on a marker and
\* fewer than 8 lines follow it), parsing fails hard: no record is built for
\* the cut block, no record with missing or defaulted header fields is
\* appended, and no tabular output is written.
C6_TruncatedBlockFails ==
    /\ [][(/\ pc = "outer"
           /\ i < Len(lines)
           /\ Line(lines, i) # BLANK
           /\ Len(lines) - (i + 1) < 8) =>
              (/\ pc' = "exit"
               /\ exc' = "IndexError"
               /\ exitCode' # 0
               /\ commits' = commits
               /\ ~ csv'.written)]_vars
    /\ [](csv.written => exc = "none")
    /\ []((LogRan /\ TruncatedLast(history)) =>
            /\ ~ csv.written
            /\ Len(commits) < Len(history)
            /\ \A k \in 1..Len(commits) : HeaderOfBlock(commits[k], k)
            /\ pc = "exit" =>
                  /\ exc = "IndexError"
                  /\ exitCode # 0
                  /\ Len(commits) = Len(history) - 1)

C6_Witness ==
    /\ pc = "exit"
    /\ history = <<"one", "trunc7">>
    /\ exc = "IndexError"
    /\ Len(commits) = 1
    /\ ~ csv.written

RECURSIVE RowsWanted(_)
\* One row per file, and one row for a commit without files
RowsWanted(cs) ==
    IF cs = <<>> THEN 0
    ELSE (IF Len(Head(cs).files) = 0 THEN 1 ELSE Len(Head(cs).files))
         + RowsWanted(Tail(cs))

\* C8: the table has one data row per file-change entry, and one row with
\* empty file fields for every commit without files.
C8_RowPerFileOrEmptyCommit ==
    csv.written => Len(csv.rows) = RowsWanted(commits)

\* C9: a command line that names no subcommand is a usage error: it is
\* reported and the process exits, so it never gets as far as git_log.
C9_MissingSubcommandRejected ==
    ~ (pc = "git_log" /\ ~ CommandScan(argv).found)

\* The text before the first tab of a line that has one
FirstField(l) ==
    SubSeq(l, 1, (CHOOSE k \in 1..Len(l) :
                     l[k] = TAB /\ \A j \in 1..(k - 1) : l[j] # TAB) - 1)

CountedLines(ls) ==
    {k \in 1..Len(ls) : In(TAB, ls[k]) /\ IsIntLiteral(FirstField(ls[k]))}

\* C7: in summary mode without email aggregation, every line that contains
\* a tab and has an integer first field yields exactly one record.
C7_EveryTabLineYieldsRecord ==
    (command = SHORTLOG /\ pc = "exit" /\ exc = "none" /\ summary_flag
        /\ ~ email_flag) =>
        Len(author_entries) = Cardinality(CountedLines(lines))

InLog == pc \in {"outer", "inner", "emit", "csv"}

\* C10: the parsing loop ends on every input; the cursor never decreases,
\* a pass of the outer loop moves it by at least 9 and a pass of the numstat
\* loop by 1; a blank line where a marker is expected ends parsing with the
\* records collected so far, and no line is read after it.
C10_CursorAdvancesAndLoopEnds ==
    /\ <>(pc = "exit")
    /\ [][InLog =>
            /\ i' >= i
            /\ (pc = "outer" /\ pc' \in {"inner", "emit"}) => i' >= i + 9
            /\ (pc = "inner" /\ pc' = "inner") => i' = i + 1
            /\ (pc = "outer" /\ i < Len(lines) /\ Line(lines, i) = BLANK) =>
                  (pc' = "csv" /\ commits' = commits /\ i' = i)
            /\ pc = "csv" => (pc' = "exit" /\ commits' = commits /\ i' = i)
            /\ lines' = lines]_vars

C10_Witness ==
    /\ pc = "csv"
    /\ i < Len(lines)
    /\ Line(lines, i) = BLANK
    /\ Len(commits) = 1
    /\ history = <<"two", "eof">>
    /\ cur = NoCur

====
